---- MODULE Spec2Model ----
(***************************************************************************)
(* Model of the chunking and retrieval pipeline of the course-assistant    *)
(* RAG helper: TextSplitter (text_splitter.py), DocumentLoader             *)
(* (document_loader.py) and VectorStore (vector_store.py).                 *)
(*                                                                         *)
(* A text is a sequence of one-character strings.  Three specifications    *)
(* share the variables:                                                    *)
(*   SplitSpec  one call of TextSplitter.split_text, the packing loop      *)
(*              taken one sentence at a time;                              *)
(*   LoadSpec   DocumentLoader.load_document followed by                   *)
(*              TextSplitter.split_documents;                              *)
(*   Spec       the calls on one VectorStore.                              *)
(***************************************************************************)
EXTENDS Integers, Sequences, FiniteSets, TLC

VARIABLES
    chunk_size,            \* TextSplitter.chunk_size
    chunk_overlap,         \* TextSplitter.chunk_overlap
    text,                  \* split_text: the argument
    pc,                    \* split_text: position of the call
    sentences,             \* split_text: the sentence list
    rest,                  \* split_text: sentences the packing loop has not reached
    chunks,                \* split_text: the local list chunks
    current_chunk,         \* split_text: current_chunk
    overlap_text,          \* split_text: overlap_text
    ret,                   \* split_text: the returned list
    loaded,                \* load_document: the path and the file it was called on
    documents,             \* the list load_document returned, split_documents' argument
    chunks_with_metadata,  \* the list split_documents returned
    collection,            \* VectorStore.collection: the records, in insertion order
    nextUuid,              \* number of uuid4() values drawn so far
    results,               \* the list the last call returned, <<>> if it returned None or raised
    raised,                \* the exception the last call raised, "none" if it returned
    lastCall               \* the last call and its arguments

vars == <<chunk_size, chunk_overlap, text, pc, sentences, rest, chunks,
          current_chunk, overlap_text, ret, loaded, documents,
          chunks_with_metadata, collection, nextUuid, results, raised, lastCall>>

splitVars == <<text, pc, sentences, rest, chunks, current_chunk, overlap_text, ret>>
loadVars  == <<loaded, documents, chunks_with_metadata>>
storeVars == <<collection, nextUuid, results>>

(***************************************************************************)
(* Bounds                                                                  *)
(***************************************************************************)
MaxLen == 5          \* longest text given to split_text in SplitSpec
MaxSize == 3         \* largest chunk_size
MaxOverlap == 2      \* largest chunk_overlap
MaxFileLen == 3      \* longest text of a DOCX or TXT file in LoadSpec
MaxPages == 3        \* most pages of a PDF, most slides of a deck
MaxBatch == 2        \* most chunks in one add_documents call
MaxRecords == 3      \* most records in the collection
MaxUuid == 4         \* most uuid4() values drawn in one behaviour
MaxTopK == 2         \* largest top_k given to search

Alphabet == {"a", ".", "!", " ", "\n"}

Min(a, b) == IF a < b THEN a ELSE b

RECURSIVE Flatten(_)
Flatten(ss) == IF ss = <<>> THEN <<>> ELSE Head(ss) \o Flatten(Tail(ss))

TextsUpTo(n) == UNION {[1..k -> Alphabet] : k \in 0..n}

(***************************************************************************)
(* TextSplitter.split_text                                                 *)
(***************************************************************************)
\* the characters of the string sentence_endings; the three full-width ones
\* (ideographic full stop, full-width ! and ?) are written by code point
SentenceEndings == {"U+3002", "U+FF01", "U+FF1F", ".", "!", "?", "\n"}

\* the characters str.strip() removes
IsSpace(c) == c \in {" ", "\n", "\t", "\r"}

RECURSIVE LStrip(_)
LStrip(s) == IF s # <<>> /\ IsSpace(Head(s)) THEN LStrip(Tail(s)) ELSE s

RECURSIVE RStrip(_)
RStrip(s) == IF s # <<>> /\ IsSpace(s[Len(s)]) THEN RStrip(SubSeq(s, 1, Len(s) - 1)) ELSE s

Strip(s) == RStrip(LStrip(s))

\* the inner while loop: the first index from j on that is not a repeat of char
RECURSIVE AbsorbRun(_, _, _)
AbsorbRun(t, j, char) ==
    IF j <= Len(t) /\ t[j] \in SentenceEndings /\ t[j] = char
    THEN AbsorbRun(t, j + 1, char)
    ELSE j

\* the outer while loop, from index i (1-based) on
RECURSIVE Scan(_, _, _, _)
Scan(t, i, current_sentence, sents) ==
    IF i > Len(t)
    THEN [sentences |-> sents, current_sentence |-> current_sentence]
    ELSE LET char == t[i]
             cur == Append(current_sentence, char)
         IN  IF char \in SentenceEndings
             THEN LET j == AbsorbRun(t, i + 1, char)
                      sentence == Strip(cur \o SubSeq(t, i + 1, j - 1))
                  IN  Scan(t, j, <<>>,
                           IF sentence # <<>> THEN Append(sents, sentence) ELSE sents)
             ELSE Scan(t, i + 1, cur, sents)

\* the scan and the flush of the trailing buffer
Sentences(t) ==
    LET r == Scan(t, 1, <<>>, <<>>)
    IN  IF Strip(r.current_sentence) # <<>>
        THEN Append(r.sentences, Strip(r.current_sentence))
        ELSE r.sentences

\* [text[i:i+size] for i in range(0, len(text), size)]
FixedSlices(t, size) ==
    LET n == (Len(t) + size - 1) \div size
    IN  [k \in 1..n |-> SubSeq(t, (k - 1) * size + 1, Min(k * size, Len(t)))]

SegmentOrSlice(t, size) ==
    IF Sentences(t) = <<>> THEN FixedSlices(t, size) ELSE Sentences(t)

\* s[-n:] for 0 <= n <= len(s); in Python -0 is 0, so s[-0:] is all of s
NegSlice(s, n) == IF n = 0 THEN s ELSE SubSeq(s, Len(s) - n + 1, Len(s))

OverlapText(cur, overlap) ==
    IF Len(cur) >= overlap THEN NegSlice(cur, overlap) ELSE cur

\* one iteration of the packing loop
PackOne(st, sentence, size, overlap) ==
    LET closes == Len(st.current_chunk) + Len(sentence) > size /\ st.current_chunk # <<>>
        cur == IF closes THEN st.overlap_text \o sentence
                         ELSE st.current_chunk \o sentence
    IN  [chunks        |-> IF closes THEN Append(st.chunks, Strip(st.current_chunk))
                                     ELSE st.chunks,
         current_chunk |-> cur,
         overlap_text  |-> OverlapText(cur, overlap)]

RECURSIVE PackAll(_, _, _, _)
PackAll(st, sents, size, overlap) ==
    IF sents = <<>> THEN st
    ELSE PackAll(PackOne(st, Head(sents), size, overlap), Tail(sents), size, overlap)

\* the flush of the last chunk
FlushLast(cs, cur) == IF Strip(cur) # <<>> THEN Append(cs, Strip(cur)) ELSE cs

RECURSIVE MergeLoop(_, _, _, _)
MergeLoop(cs, temp_chunk, merged_chunks, size) ==
    IF cs = <<>>
    THEN IF temp_chunk # <<>> THEN Append(merged_chunks, temp_chunk) ELSE merged_chunks
    ELSE IF Len(temp_chunk) + Len(Head(cs)) <= size
         THEN MergeLoop(Tail(cs), temp_chunk \o Head(cs), merged_chunks, size)
         ELSE MergeLoop(Tail(cs), Head(cs),
                        IF temp_chunk # <<>> THEN Append(merged_chunks, temp_chunk)
                                             ELSE merged_chunks,
                        size)

\* the re-merge pass
MergeChunks(cs, size) == IF Len(cs) > 1 THEN MergeLoop(cs, <<>>, <<>>, size) ELSE cs

EmptyPack == [chunks |-> <<>>, current_chunk |-> <<>>, overlap_text |-> <<>>]

\* the whole function
split_text(t, size, overlap) ==
    IF t = <<>> THEN <<>>
    ELSE LET st == PackAll(EmptyPack, SegmentOrSlice(t, size), size, overlap)
         IN  MergeChunks(FlushLast(st.chunks, st.current_chunk), size)

(***************************************************************************)
(* DocumentLoader.  A file is a record: name and ext make up the path,     *)
(* status says whether it can be read, pages holds the text extracted from *)
(* each page of a PDF, slides the texts of the shapes of each slide of a   *)
(* deck, text the text of a DOCX or TXT file.  Characters outside ASCII    *)
(* are written by code point.                                              *)
(***************************************************************************)
Digits == <<"0", "1", "2", "3", "4", "5", "6", "7", "8", "9">>

\* str(n) of an f-string
RECURSIVE Decimal(_)
Decimal(n) == IF n < 10 THEN <<Digits[n + 1]>>
              ELSE Decimal(n \div 10) \o <<Digits[(n % 10) + 1]>>

Dashes == <<"-", "-", "-">>

\* f"--- <U+7B2C> {n} <U+9875> ---\n{text}\n"
PdfPageText(n, t) ==
    Dashes \o <<" ", "U+7B2C", " ">> \o Decimal(n) \o <<" ", "U+9875", " ">>
           \o Dashes \o <<"\n">> \o t \o <<"\n">>

\* "\n".join(texts)
RECURSIVE JoinLines(_)
JoinLines(ts) == IF ts = <<>> THEN <<>>
                 ELSE IF Len(ts) = 1 THEN ts[1]
                 ELSE ts[1] \o <<"\n">> \o JoinLines(Tail(ts))

\* the stripped texts of the shapes whose text is not blank
RECURSIVE SlideTexts(_)
SlideTexts(shapes) ==
    IF shapes = <<>> THEN <<>>
    ELSE IF Strip(Head(shapes)) # <<>>
         THEN <<Strip(Head(shapes))>> \o SlideTexts(Tail(shapes))
         ELSE SlideTexts(Tail(shapes))

NoTextPlaceholder == <<"[", "U+65E0", "U+6587", "U+672C", "U+5185", "U+5BB9", "]">>

\* f"--- <U+5E7B><U+706F><U+7247> {n} ---\n{text}\n"
SlideText(n, shapes) ==
    Dashes \o <<" ", "U+5E7B", "U+706F", "U+7247", " ">> \o Decimal(n) \o <<" ">>
           \o Dashes \o <<"\n">>
           \o (IF SlideTexts(shapes) # <<>> THEN JoinLines(SlideTexts(shapes))
                                            ELSE NoTextPlaceholder)
           \o <<"\n">>

\* f"--- DOCX<U+6587><U+4EF6> ---\n{text}\n"
DocxText(t) ==
    Dashes \o <<" ", "D", "O", "C", "X", "U+6587", "U+4EF6", " ">> \o Dashes
           \o <<"\n">> \o t \o <<"\n">>

\* f"--- TXT<U+6587><U+4EF6> ---\n{text}\n"
TxtText(t) ==
    Dashes \o <<" ", "T", "X", "T", "U+6587", "U+4EF6", " ">> \o Dashes
           \o <<"\n">> \o t \o <<"\n">>

\* What a load_* method hands back: [raises, value].  value is a list of
\* {"text": ...} dictionaries, written as the sequence of their texts;
\* isNone says the method fell off its end and returned None.
Returned(v)  == [raises |-> "none", isNone |-> FALSE, value |-> v]
ReturnedNone == [raises |-> "none", isNone |-> TRUE, value |-> <<>>]
Raises(e)    == [raises |-> e, isNone |-> FALSE, value |-> <<>>]

\* PdfReader has no attribute PdfReadError, so an error other than
\* FileNotFoundError ends in the evaluation of that except clause
load_pdf(f) ==
    CASE f.status = "ok"      -> Returned([n \in 1..Len(f.pages) |-> PdfPageText(n, f.pages[n])])
      [] f.status = "missing" -> ReturnedNone
      [] OTHER                -> Raises("AttributeError")

load_pptx(f) ==
    IF f.status = "ok"
    THEN Returned([n \in 1..Len(f.slides) |-> SlideText(n, f.slides[n])])
    ELSE Returned(<<>>)

\* docx2txt has no attribute Docx2txtError
load_docx(f) ==
    CASE f.status = "ok"      -> Returned(<<DocxText(f.text)>>)
      [] f.status = "missing" -> Returned(<<>>)
      [] OTHER                -> Raises("AttributeError")

load_txt(f) ==
    IF f.status = "ok" THEN Returned(<<TxtText(f.text)>>) ELSE Returned(<<>>)

\* str.lower() on the extensions of the model
Lower(e) == IF e = ".PDF" THEN ".pdf" ELSE e

\* A document's content is the Python value stored under "content":
\* type "str" with its characters, or type "list" for the one-element list
\* [{"text": ...}] with the characters of that text.
StrContent(t)  == [type |-> "str",  text |-> t]
ListContent(t) == [type |-> "list", text |-> t]

Document(content, f, ext, page_number) ==
    [content     |-> content,
     filename    |-> <<f.name, f.ext>>,
     filepath    |-> <<"data", f.name, f.ext>>,
     filetype    |-> ext,
     page_number |-> page_number]

\* [raises, documents] of load_document on the path of file f
load_document(f) ==
    LET ext == Lower(f.ext)
    IN  CASE ext = ".pdf" ->
               LET pages == load_pdf(f)
               IN  IF pages.raises # "none" THEN [raises |-> pages.raises, documents |-> <<>>]
                   ELSE IF pages.isNone THEN [raises |-> "TypeError", documents |-> <<>>]
                   ELSE [raises |-> "none",
                         documents |-> [n \in 1..Len(pages.value) |->
                                           Document(StrContent(pages.value[n]), f, ext, n)]]
          [] ext = ".pptx" ->
               LET slides == load_pptx(f)
               IN  [raises |-> "none",
                    documents |-> [n \in 1..Len(slides.value) |->
                                      Document(StrContent(slides.value[n]), f, ext, n)]]
          [] ext = ".docx" ->
               LET content == load_docx(f)
               IN  IF content.raises # "none" THEN [raises |-> content.raises, documents |-> <<>>]
                   ELSE IF content.value # <<>>
                        THEN [raises |-> "none",
                              documents |-> <<Document(ListContent(content.value[1]), f, ext, 0)>>]
                        ELSE [raises |-> "none", documents |-> <<>>]
          [] ext = ".txt" ->
               LET content == load_txt(f)
               IN  IF content.value # <<>>
                   THEN [raises |-> "none",
                         documents |-> <<Document(ListContent(content.value[1]), f, ext, 0)>>]
                   ELSE [raises |-> "none", documents |-> <<>>]
          [] OTHER -> [raises |-> "none", documents |-> <<>>]

(***************************************************************************)
(* TextSplitter.split_documents                                            *)
(***************************************************************************)
Paginated == {".pdf", ".pptx"}
FreeText  == {".docx", ".txt"}

Chunk(content, doc, page_number, chunk_id, images) ==
    [content     |-> content,
     filename    |-> doc.filename,
     filepath    |-> doc.filepath,
     filetype    |-> doc.filetype,
     page_number |-> page_number,
     chunk_id    |-> chunk_id,
     images      |-> images]

\* split_text on a document's content: on a list, "if not text" lets the
\* non-empty list through and current_sentence += text[0] raises TypeError
SplitContent(content, size, overlap) ==
    IF content.type = "str"
    THEN [raises |-> "none", pieces |-> split_text(content.text, size, overlap)]
    ELSE [raises |-> "TypeError", pieces |-> <<>>]

\* DocChunks with no branch for the paginated types: every document is split
DocChunks_SplitsPages(doc, size, overlap) ==
    IF doc.filetype \in Paginated \cup FreeText
    THEN LET pieces == SplitContent(doc.content, size, overlap).pieces
         IN  [i \in 1..Len(pieces) |-> Chunk(pieces[i], doc, doc.page_number, i - 1, <<>>)]
    ELSE <<>>

\* DocChunks with the pieces numbered from 1
DocChunks_OneBasedIds(doc, size, overlap) ==
    IF doc.filetype \in Paginated
    THEN <<Chunk(doc.content.text, doc, doc.page_number, 0, <<>>)>>
    ELSE IF doc.filetype \in FreeText
    THEN LET pieces == SplitContent(doc.content, size, overlap).pieces
         IN  [i \in 1..Len(pieces) |-> Chunk(pieces[i], doc, 0, i, <<>>)]
    ELSE <<>>

\* the chunks one document contributes
DocChunks(doc, size, overlap) ==
    IF doc.filetype \in Paginated
    THEN <<Chunk(doc.content.text, doc, doc.page_number, 0, <<>>)>>
    ELSE IF doc.filetype \in FreeText
    THEN LET pieces == SplitContent(doc.content, size, overlap).pieces
         IN  [i \in 1..Len(pieces) |-> Chunk(pieces[i], doc, 0, i - 1, <<>>)]
    ELSE <<>>

DocRaises(doc, size, overlap) ==
    IF doc.filetype \in FreeText
    THEN SplitContent(doc.content, size, overlap).raises
    ELSE "none"

\* [raises, chunks] of split_documents: the loop stops at the first document
\* whose split raises, and then nothing is returned
RECURSIVE split_documents(_, _, _)
split_documents(docs, size, overlap) ==
    IF docs = <<>> THEN [raises |-> "none", chunks |-> <<>>]
    ELSE IF DocRaises(Head(docs), size, overlap) # "none"
    THEN [raises |-> DocRaises(Head(docs), size, overlap), chunks |-> <<>>]
    ELSE LET tl == split_documents(Tail(docs), size, overlap)
         IN  IF tl.raises # "none" THEN tl
             ELSE [raises |-> "none",
                   chunks |-> DocChunks(Head(docs), size, overlap) \o tl.chunks]

(***************************************************************************)
(* VectorStore.  The collection is the sequence of its records in          *)
(* insertion order; a record is what one collection.add call writes.       *)
(* The n-th value uuid4() returns is written n.                            *)
(***************************************************************************)
RECURSIVE CountOf(_, _)
CountOf(c, t) == IF t = <<>> THEN 0
                 ELSE (IF Head(t) = c THEN 1 ELSE 0) + CountOf(c, Tail(t))

\* the embedding service: a fixed function from texts to vectors
get_embedding(t) == <<Len(t), CountOf("a", t)>>

\* squared L2 distance, the collection's default; a smaller distance is a
\* greater similarity
Distance(u, v) == (u[1] - v[1]) * (u[1] - v[1]) + (u[2] - v[2]) * (u[2] - v[2])

Metadata(chunk) ==
    [filename    |-> chunk.filename,
     filepath    |-> chunk.filepath,
     filetype    |-> chunk.filetype,
     page_number |-> chunk.page_number,
     chunk_id    |-> chunk.chunk_id,
     has_images  |-> Len(chunk.images) > 0]

Record(doc_id, chunk) ==
    [id        |-> doc_id,
     document  |-> chunk.content,
     metadata  |-> Metadata(chunk),
     embedding |-> get_embedding(chunk.content)]

Ids(coll) == {coll[i].id : i \in 1..Len(coll)}

\* collection.add of one record: an id the collection holds already is not
\* added again
CollectionAdd(coll, rec) == IF rec.id \in Ids(coll) THEN coll ELSE Append(coll, rec)

\* AddLoop with the uuid counter never advanced: every chunk gets the same id
RECURSIVE AddLoop_SameId(_, _, _, _)
AddLoop_SameId(st, batch, k, failAt) ==
    IF k > Len(batch) THEN st
    ELSE LET doc_id == st.nextUuid + 1
         IN  IF k - 1 = failAt
             THEN [collection |-> st.collection, nextUuid |-> st.nextUuid,
                   raised |-> "EmbeddingError"]
             ELSE AddLoop_SameId([collection |-> CollectionAdd(st.collection,
                                                               Record(doc_id, batch[k])),
                                  nextUuid   |-> st.nextUuid,
                                  raised     |-> "none"],
                                 batch, k + 1, failAt)

\* AddLoop with the embedding failure caught inside the loop: the chunk is
\* skipped and the loop goes on
RECURSIVE AddLoop_SkipFailed(_, _, _, _)
AddLoop_SkipFailed(st, batch, k, failAt) ==
    IF k > Len(batch) THEN st
    ELSE LET doc_id == st.nextUuid + 1
         IN  IF k - 1 = failAt
             THEN AddLoop_SkipFailed([collection |-> st.collection, nextUuid |-> doc_id,
                                      raised |-> "none"],
                                     batch, k + 1, failAt)
             ELSE AddLoop_SkipFailed([collection |-> CollectionAdd(st.collection,
                                                                   Record(doc_id, batch[k])),
                                      nextUuid   |-> doc_id,
                                      raised     |-> "none"],
                                     batch, k + 1, failAt)

\* The loop of add_documents from the k-th chunk on.  failAt is the 0-based
\* index of the first chunk whose embedding call fails, Len(batch) if none
\* does.  The uuid is drawn before the embedding is asked for.
RECURSIVE AddLoop(_, _, _, _)
AddLoop(st, batch, k, failAt) ==
    IF k > Len(batch) THEN st
    ELSE LET doc_id == st.nextUuid + 1
         IN  IF k - 1 = failAt
             THEN [collection |-> st.collection, nextUuid |-> doc_id,
                   raised |-> "EmbeddingError"]
             ELSE AddLoop([collection |-> CollectionAdd(st.collection, Record(doc_id, batch[k])),
                           nextUuid   |-> doc_id,
                           raised     |-> "none"],
                          batch, k + 1, failAt)

add_documents(coll, uuid, batch, failAt) ==
    AddLoop([collection |-> coll, nextUuid |-> uuid, raised |-> "none"], batch, 1, failAt)

get_collection_count(coll) == Len(coll)

\* collection.query: the rankings the index may return for n_results = n, as
\* sequences of positions in the collection: the nearest min(n, count)
\* records, nearest first, ties in any order
Rankings(coll, qe, n) ==
    LET m == Min(n, Len(coll))
        d(i) == Distance(qe, coll[i].embedding)
    IN  {r \in [1..m -> 1..Len(coll)] :
            /\ \A i, j \in 1..m : i < j => r[i] # r[j] /\ d(r[i]) <= d(r[j])
            /\ \A p \in 1..Len(coll) :
                  (\A i \in 1..m : r[i] # p) => \A i \in 1..m : d(r[i]) <= d(p)}

\* query_results["ids"][0], ["documents"][0], ["metadatas"][0] for a ranking
QueryResults(coll, r) ==
    [ids       |-> [i \in 1..Len(r) |-> coll[r[i]].id],
     documents |-> [i \in 1..Len(r) |-> coll[r[i]].document],
     metadatas |-> [i \in 1..Len(r) |-> coll[r[i]].metadata]]

\* FormatResults with the documents taken in the opposite order to the ids
FormatResults_Misaligned(q) ==
    [i \in 1..Min(Len(q.ids), Min(Len(q.documents), Len(q.metadatas))) |->
        [id |-> q.ids[i], content |-> q.documents[Len(q.documents) - i + 1],
         metadata |-> q.metadatas[i]]]

\* the zip loop of search
FormatResults(q) ==
    [i \in 1..Min(Len(q.ids), Min(Len(q.documents), Len(q.metadatas))) |->
        [id |-> q.ids[i], content |-> q.documents[i], metadata |-> q.metadatas[i]]]

clear_collection(coll) == <<>>

(***************************************************************************)
(* Values of the variables a specification does not use                    *)
(***************************************************************************)
NoCall == [op |-> "none", batch |-> <<>>, failAt |-> 0, query |-> <<>>, top_k |-> 0]
NoFile == [name |-> "", ext |-> "", status |-> "none", pages |-> <<>>, slides |-> <<>>, text |-> <<>>]

SplitIdle ==
    /\ text = <<>> /\ pc = "idle" /\ sentences = <<>> /\ rest = <<>>
    /\ chunks = <<>> /\ current_chunk = <<>> /\ overlap_text = <<>> /\ ret = <<>>

LoadIdle == loaded = NoFile /\ documents = <<>> /\ chunks_with_metadata = <<>>

StoreIdle == collection = <<>> /\ nextUuid = 0 /\ results = <<>>

(***************************************************************************)
(* SplitSpec: one call of split_text                                       *)
(***************************************************************************)
InitSplit ==
    /\ chunk_size \in 1..MaxSize
    /\ chunk_overlap \in 0..MaxOverlap
    /\ text \in TextsUpTo(MaxLen)
    /\ pc = "segment"
    /\ sentences = <<>> /\ rest = <<>> /\ chunks = <<>>
    /\ current_chunk = <<>> /\ overlap_text = <<>> /\ ret = <<>>
    /\ LoadIdle /\ StoreIdle
    /\ raised = "none" /\ lastCall = NoCall

\* the guard for the empty text, then segmentation and the fallback
SegmentText ==
    /\ pc = "segment"
    /\ IF text = <<>>
       THEN /\ pc' = "done"
            /\ UNCHANGED <<sentences, rest>>
       ELSE /\ pc' = "pack"
            /\ sentences' = SegmentOrSlice(text, chunk_size)
            /\ rest' = sentences'
    /\ UNCHANGED <<chunk_size, chunk_overlap, text, chunks, current_chunk,
                   overlap_text, ret, loadVars, storeVars, raised, lastCall>>

\* one iteration of "for sentence in sentences"
PackSentence ==
    /\ pc = "pack" /\ rest # <<>>
    /\ LET st == PackOne([chunks |-> chunks, current_chunk |-> current_chunk,
                          overlap_text |-> overlap_text],
                         Head(rest), chunk_size, chunk_overlap)
       IN  /\ chunks' = st.chunks
           /\ current_chunk' = st.current_chunk
           /\ overlap_text' = st.overlap_text
    /\ rest' = Tail(rest)
    /\ UNCHANGED <<chunk_size, chunk_overlap, text, pc, sentences, ret,
                   loadVars, storeVars, raised, lastCall>>

\* the flush of the last chunk, the re-merge pass and the return
FinishSplit ==
    /\ pc = "pack" /\ rest = <<>>
    /\ chunks' = FlushLast(chunks, current_chunk)
    /\ ret' = MergeChunks(chunks', chunk_size)
    /\ pc' = "done"
    /\ UNCHANGED <<chunk_size, chunk_overlap, text, sentences, rest, current_chunk,
                   overlap_text, loadVars, storeVars, raised, lastCall>>

NextSplit == SegmentText \/ PackSentence \/ FinishSplit

SplitSpec == InitSplit /\ [][NextSplit]_vars

\* the stepwise call returns what the function returns
StepwiseAgrees == pc = "done" => ret = split_text(text, chunk_size, chunk_overlap)

(***************************************************************************)
(* LoadSpec: one ingestion run, load_document (or a caller's own list of   *)
(* documents) followed by split_documents                                  *)
(***************************************************************************)
FileStatus == {"ok", "missing", "corrupt"}

\* texts page.extract_text() returns
PageTexts == {<<>>, <<"a", ".", "a", "!">>}

\* the texts of the shapes of one slide
ShapeLists == {<<>>, << <<" ">>, <<"a", ".">> >>, << <<"a">>, <<"!", " ">> >>}

SeqsUpTo(S, n) == UNION {[1..k -> S] : k \in 0..n}

File(name, ext, status, pages, slides, t) ==
    [name |-> name, ext |-> ext, status |-> status,
     pages |-> pages, slides |-> slides, text |-> t]

Files ==
         {File("f", e, "ok", ps, <<>>, <<>>) : e \in {".pdf", ".PDF"}, ps \in SeqsUpTo(PageTexts, MaxPages)}
    \cup {File("f", ".pptx", "ok", <<>>, sl, <<>>) : sl \in SeqsUpTo(ShapeLists, MaxPages)}
    \cup {File("f", e, "ok", <<>>, <<>>, t) : e \in {".docx", ".txt"}, t \in TextsUpTo(MaxFileLen)}
    \cup {File("f", e, st, <<>>, <<>>, <<>>) :
              e \in {".pdf", ".pptx", ".docx", ".txt"}, st \in FileStatus \ {"ok"}}
    \cup {File("f", ".md", "ok", <<>>, <<>>, <<"a", ".">>)}

\* Records a caller of split_documents builds itself, in the shape the
\* loader's interface documents: the content of a free-text record is a string.
SuppliedFreeDocs ==
    {Document(StrContent(t), [name |-> "g", ext |-> e], e, 0) :
        e \in FreeText, t \in TextsUpTo(MaxFileLen)}

SuppliedExtraDocs ==
    {Document(StrContent(PdfPageText(2, <<"a", ".">>)), [name |-> "h", ext |-> ".pdf"], ".pdf", 2),
     Document(StrContent(<<"a", ".", "!">>), [name |-> "h", ext |-> ".txt"], ".txt", 0)}

SuppliedLists ==
         {<<d>> : d \in SuppliedFreeDocs}
    \cup {<<d, e>> : d \in SuppliedFreeDocs, e \in SuppliedExtraDocs}
    \cup {<<e, d>> : d \in SuppliedFreeDocs, e \in SuppliedExtraDocs}

Call(op) == [NoCall EXCEPT !.op = op]

InitLoad ==
    /\ chunk_size \in 1..MaxSize
    /\ chunk_overlap \in 0..MaxOverlap
    /\ SplitIdle /\ LoadIdle /\ StoreIdle
    /\ raised = "none" /\ lastCall = NoCall

LoadDocument ==
    /\ lastCall.op = "none"
    /\ \E f \in Files :
          LET r == load_document(f)
          IN  /\ loaded' = f
              /\ raised' = r.raises
              /\ documents' = r.documents
    /\ lastCall' = Call("load_document")
    /\ UNCHANGED <<chunk_size, chunk_overlap, splitVars, chunks_with_metadata, storeVars>>

SupplyDocuments ==
    /\ lastCall.op = "none"
    /\ \E docs \in SuppliedLists : documents' = docs
    /\ lastCall' = Call("supply")
    /\ UNCHANGED <<chunk_size, chunk_overlap, splitVars, loaded, chunks_with_metadata,
                   storeVars, raised>>

SplitDocuments ==
    /\ lastCall.op \in {"load_document", "supply"}
    /\ raised = "none"
    /\ LET r == split_documents(documents, chunk_size, chunk_overlap)
       IN  /\ raised' = r.raises
           /\ chunks_with_metadata' = r.chunks
    /\ lastCall' = Call("split_documents")
    /\ UNCHANGED <<chunk_size, chunk_overlap, splitVars, loaded, documents, storeVars>>

NextLoad == LoadDocument \/ SupplyDocuments \/ SplitDocuments

LoadSpec == InitLoad /\ [][NextLoad]_vars

(***************************************************************************)
(* Spec: the calls on one VectorStore                                      *)
(***************************************************************************)
PoolDoc(name, ext) == [filename |-> <<name, ext>>, filepath |-> <<"data", name, ext>>,
                       filetype |-> ext]

\* chunks of the shape split_documents emits
ChunkPool ==
    {Chunk(<<"a", ".">>, PoolDoc("f", ".pdf"), 1, 0, <<>>),
     Chunk(<<"a", "!">>, PoolDoc("g", ".txt"), 0, 0, <<>>),
     Chunk(<<"a", ".", "a">>, PoolDoc("g", ".txt"), 0, 1, <<"img">>)}

Batches == SeqsUpTo(ChunkPool, MaxBatch)

Queries == {<<"a">>, <<"a", ".", "a">>}

InitStore ==
    /\ chunk_size = 1 /\ chunk_overlap = 0
    /\ SplitIdle /\ LoadIdle /\ StoreIdle
    /\ raised = "none" /\ lastCall = NoCall

AddDocuments ==
    \E batch \in Batches :
    \E failAt \in 0..Len(batch) :
        /\ Len(collection) + Len(batch) <= MaxRecords
        /\ nextUuid + Len(batch) <= MaxUuid
        /\ LET st == add_documents(collection, nextUuid, batch, failAt)
           IN  /\ collection' = st.collection
               /\ nextUuid' = st.nextUuid
               /\ raised' = st.raised
        /\ lastCall' = [NoCall EXCEPT !.op = "add_documents", !.batch = batch,
                                      !.failAt = failAt]
        /\ results' = <<>>
        /\ UNCHANGED <<chunk_size, chunk_overlap, splitVars, loadVars>>

\* the embedding call for the query may fail; then search returns nothing
Search ==
    \E query \in Queries :
    \E top_k \in 1..MaxTopK :
        /\ lastCall' = [NoCall EXCEPT !.op = "search", !.query = query, !.top_k = top_k]
        /\ \/ /\ raised' = "EmbeddingError"
              /\ results' = <<>>
           \/ /\ raised' = "none"
              /\ \E r \in Rankings(collection, get_embedding(query), top_k) :
                    results' = FormatResults(QueryResults(collection, r))
        /\ UNCHANGED <<chunk_size, chunk_overlap, splitVars, loadVars, collection, nextUuid>>

ClearCollection ==
    /\ collection' = clear_collection(collection)
    /\ raised' = "none"
    /\ lastCall' = Call("clear_collection")
    /\ results' = <<>>
    /\ UNCHANGED <<chunk_size, chunk_overlap, splitVars, loadVars, nextUuid>>

Next == AddDocuments \/ Search \/ ClearCollection

Spec == InitStore /\ [][Next]_vars

(***************************************************************************)
(* Claims about split_text, stated on SplitSpec                            *)
(***************************************************************************)
\* ret[i] is one segmented sentence, and that sentence is longer than chunk_size
IsOversizedSentence(c) ==
    /\ Len(c) > chunk_size
    /\ \E k \in 1..Len(sentences) : sentences[k] = c

\* C1: every returned chunk except possibly the last has length <= chunk_size,
\* unless it consists of a single sentence that is itself longer than chunk_size.
C1_ChunkLengthBound ==
    pc = "done" =>
        \A i \in 1..(Len(ret) - 1) :
            Len(ret[i]) <= chunk_size \/ IsOversizedSentence(ret[i])

\* the chunks with the first cut[i] characters of chunk i removed
WithoutOverlap(cs, cut) == [i \in 1..Len(cs) |-> SubSeq(cs[i], cut[i] + 1, Len(cs[i]))]

\* C2: removing from the start of each chunk an overlap region of at most
\* chunk_overlap characters and concatenating the chunks gives back the
\* segmented sentences, in order, none dropped and none duplicated.
C2_SentencesReconstructed ==
    pc = "done" =>
        \E cut \in [1..Len(ret) -> 0..chunk_overlap] :
            /\ \A i \in 1..Len(ret) : cut[i] <= Len(ret[i])
            /\ Flatten(WithoutOverlap(ret, cut)) = Flatten(Sentences(text))

\* C7: no returned chunk is empty after trimming, and the empty text gives
\* the empty list.
C7_NoEmptyChunk ==
    pc = "done" =>
        /\ \A i \in 1..Len(ret) : Strip(ret[i]) # <<>>
        /\ text = <<>> => ret = <<>>

\* the last n characters of c, or all of c if it is shorter; empty for n = 0
LastChars(c, n) == IF Len(c) <= n THEN c ELSE SubSeq(c, Len(c) - n + 1, Len(c))

\* C10: whenever the packing loop closes a chunk, the new chunk is the last
\* chunk_overlap characters of the closed chunk (all of it if it is shorter)
\* followed by the sentence; with chunk_overlap = 0 nothing is carried over.
C10_OverlapSeed ==
    [][(pc = "pack" /\ pc' = "pack" /\ Len(chunks') = Len(chunks) + 1) =>
            current_chunk' = LastChars(current_chunk, chunk_overlap) \o Head(rest)]_vars

\* no character of t is a sentence terminator
NoTerminator(t) == \A i \in 1..Len(t) : t[i] \notin SentenceEndings

NoSpace(t) == \A i \in 1..Len(t) : ~IsSpace(t[i])

\* C11: a text with no sentence terminator at all is returned as the
\* consecutive slices of chunk_size characters of the raw text, so no chunk
\* is longer than chunk_size.  (A text with blanks is held to the length
\* bound only, its blank pieces being dropped.)
C11_UnterminatedTextSliced ==
    (pc = "done" /\ NoTerminator(text)) =>
        /\ \A i \in 1..Len(ret) : Len(ret[i]) <= chunk_size
        /\ NoSpace(text) => ret = FixedSlices(text, chunk_size)

\* the newline at i has no newline next to it
IsolatedNewline(t, i) ==
    /\ t[i] = "\n"
    /\ i = 1 \/ t[i - 1] # "\n"
    /\ i = Len(t) \/ t[i + 1] # "\n"

\* the characters at which C12 says a sentence is closed: the six marks, and
\* a newline that is part of a run of two or more newlines
ClosesSentence(t, i) == t[i] \in SentenceEndings /\ ~IsolatedNewline(t, i)

\* the segmentation C12 describes: the scan of split_text with ClosesSentence
\* as the test, a run of the same terminator absorbed into one sentence
RECURSIVE ScanAsClaimed(_, _, _, _)
ScanAsClaimed(t, i, current_sentence, sents) ==
    IF i > Len(t)
    THEN IF Strip(current_sentence) # <<>> THEN Append(sents, Strip(current_sentence))
                                           ELSE sents
    ELSE LET cur == Append(current_sentence, t[i])
         IN  IF ClosesSentence(t, i)
             THEN LET j == AbsorbRun(t, i + 1, t[i])
                      sentence == Strip(cur \o SubSeq(t, i + 1, j - 1))
                  IN  ScanAsClaimed(t, j, <<>>,
                                    IF sentence # <<>> THEN Append(sents, sentence) ELSE sents)
             ELSE ScanAsClaimed(t, i + 1, cur, sents)

\* C12: segmentation closes a sentence exactly at one of the six marks or at
\* a newline of a paragraph break; a single newline with no newline next to
\* it stays inside its sentence; a run of one terminator is one unit and a
\* different terminator after it starts the next sentence.
C12_SegmentationBoundaries ==
    (pc = "pack" /\ Strip(text) # <<>>) =>
        sentences = ScanAsClaimed(text, 1, <<>>, <<>>)

(***************************************************************************)
(* Claims about load_document and split_documents, stated on LoadSpec      *)
(***************************************************************************)
SplitReturned == lastCall.op = "split_documents" /\ raised = "none"

\* the chunks that carry the provenance of document doc, in output order
ChunksOf(doc) ==
    SelectSeq(chunks_with_metadata,
              LAMBDA c : c.filepath = doc.filepath /\ c.page_number = doc.page_number)

\* C6: split_documents emits exactly one chunk for every paginated document:
\* the content verbatim, chunk_id 0, the document's page_number, which is > 0;
\* a PDF of n pages that loads gives n chunks with page_number 1..n, chunk_id 0.
C6_PaginatedOneChunk ==
    SplitReturned =>
        /\ \A d \in 1..Len(documents) :
              documents[d].filetype \in Paginated =>
                  /\ Len(ChunksOf(documents[d])) = 1
                  /\ ChunksOf(documents[d])[1].content = documents[d].content.text
                  /\ ChunksOf(documents[d])[1].chunk_id = 0
                  /\ ChunksOf(documents[d])[1].page_number > 0
        /\ (loaded.status = "ok" /\ Lower(loaded.ext) = ".pdf") =>
              /\ Len(chunks_with_metadata) = Len(loaded.pages)
              /\ \A n \in 1..Len(loaded.pages) :
                    /\ chunks_with_metadata[n].page_number = n
                    /\ chunks_with_metadata[n].chunk_id = 0

\* a PDF of three pages has been loaded and split
C6_Witness ==
    /\ SplitReturned
    /\ loaded.status = "ok" /\ Lower(loaded.ext) = ".pdf" /\ Len(loaded.pages) = 3
    /\ Len(chunks_with_metadata) = 3
    /\ Len(chunks_with_metadata[1].content) > chunk_size

\* C8: for every free-text document split_documents emits one chunk per
\* piece of split_text on its content, in order, with page_number 0 and
\* chunk_id the piece's 0-based position; filename, filepath and filetype
\* are those of the document.
C8_FreeTextChunkIds ==
    SplitReturned =>
        \A d \in 1..Len(documents) :
            documents[d].filetype \in FreeText =>
                LET doc == documents[d]
                    cs == SelectSeq(chunks_with_metadata, LAMBDA c : c.filepath = doc.filepath)
                    pieces == split_text(doc.content.text, chunk_size, chunk_overlap)
                IN  /\ Len(cs) = Len(pieces)
                    /\ \A i \in 1..Len(cs) :
                          /\ cs[i].content = pieces[i]
                          /\ cs[i].page_number = 0
                          /\ cs[i].chunk_id = i - 1
                          /\ cs[i].filename = doc.filename
                          /\ cs[i].filetype = doc.filetype

\* two free-text documents have been split, the first into three chunks
C8_Witness ==
    /\ SplitReturned
    /\ Len(documents) = 2
    /\ documents[1].filetype \in FreeText /\ documents[2].filetype \in FreeText
    /\ Len(chunks_with_metadata) >= 5
    /\ chunks_with_metadata[3].chunk_id = 2
    /\ chunks_with_metadata[4].chunk_id = 0

LoadedFreeText == loaded.status = "ok" /\ Lower(loaded.ext) \in FreeText

\* C9: for a DOCX or TXT file that is read, load_document supplies one record
\* whose content is a string, with page_number 0, and split_documents on that
\* record completes.
C9_FreeTextPathCompletes ==
    /\ (lastCall.op = "load_document" /\ LoadedFreeText) =>
          /\ raised = "none"
          /\ Len(documents) = 1
          /\ documents[1].content.type = "str"
          /\ documents[1].page_number = 0
    /\ (lastCall.op = "split_documents" /\ LoadedFreeText) => raised = "none"

(***************************************************************************)
(* Claims about the VectorStore, stated on Spec                            *)
(***************************************************************************)
\* C3: an add_documents call that returns raises get_collection_count() by
\* exactly the number of chunks passed, clear_collection resets it to 0 and
\* search leaves it alone, so the count is the number of chunks added since
\* the last clear_collection.
C3_CountTracksAdds ==
    [][/\ (lastCall'.op = "add_documents" /\ raised' = "none") =>
              get_collection_count(collection') =
                  get_collection_count(collection) + Len(lastCall'.batch)
       /\ lastCall'.op = "clear_collection" => get_collection_count(collection') = 0
       /\ lastCall'.op = "search" =>
              get_collection_count(collection') = get_collection_count(collection)]_vars

\* a batch of two chunks has been added to a collection of one record, after
\* an earlier call used up a uuid (a clear_collection or an aborted batch)
C3_Witness ==
    /\ lastCall.op = "add_documents" /\ raised = "none"
    /\ Len(lastCall.batch) = 2
    /\ get_collection_count(collection) = 3
    /\ nextUuid > 3

\* the records add_documents writes for the first n chunks of a batch, the
\* first of them under the id first
RecordsOf(batch, n, first) == [k \in 1..n |-> Record(first + k - 1, batch[k])]

\* C4: when the embedding call fails for the chunk of 0-based index i, the
\* failure reaches the caller, neither that chunk nor a later one is written,
\* and the i chunks before it stay in the collection: the count grows by i.
C4_AbortOnEmbeddingFailure ==
    [][(lastCall'.op = "add_documents" /\ lastCall'.failAt < Len(lastCall'.batch)) =>
            /\ raised' = "EmbeddingError"
            /\ collection' = collection \o RecordsOf(lastCall'.batch, lastCall'.failAt,
                                                     nextUuid + 1)
            /\ get_collection_count(collection') =
                   get_collection_count(collection) + lastCall'.failAt]_vars

\* the embedding failed for the second chunk of a batch: one record was kept
C4_Witness ==
    /\ lastCall.op = "add_documents"
    /\ Len(lastCall.batch) = 2 /\ lastCall.failAt = 1
    /\ raised = "EmbeddingError"
    /\ get_collection_count(collection) >= 2

\* the distance from the query of the last search to the record of id
DistanceOf(id) ==
    LET rec == CHOOSE rec \in {collection[i] : i \in 1..Len(collection)} : rec.id = id
    IN  Distance(get_embedding(lastCall.query), rec.embedding)

\* C5: search returns at most top_k results, fewer only when the collection
\* holds fewer records, in order of non-increasing similarity; every result
\* carries the id of a record now in the collection and that record's
\* content and metadata.
C5_SearchResults ==
    (lastCall.op = "search" /\ raised = "none") =>
        /\ Len(results) <= lastCall.top_k
        /\ Len(results) = Min(lastCall.top_k, get_collection_count(collection))
        /\ \A i \in 1..Len(results) :
              \E p \in 1..Len(collection) :
                  /\ collection[p].id = results[i].id
                  /\ collection[p].document = results[i].content
                  /\ collection[p].metadata = results[i].metadata
        /\ \A i, j \in 1..Len(results) :
              i < j => DistanceOf(results[i].id) <= DistanceOf(results[j].id)

\* a search with top_k = 2 on a collection of three records returned two
\* results of different content
C5_Witness ==
    /\ lastCall.op = "search" /\ raised = "none"
    /\ lastCall.top_k = 2
    /\ get_collection_count(collection) = 3
    /\ Len(results) = 2
    /\ results[1].content # results[2].content
    /\ nextUuid > 3
====
